---------------------------- MODULE Spec2Model ----------------------------
(*
  Model of the benchmark-matrix orchestrator, scripts/run_matrix.ts together
  with the process/readiness helpers of scripts/lib.ts.

  The orchestrator is one single-threaded event loop.  Its control flow is
  cut at the awaits that wait for a real event (a socket, a timer, a child
  exit): between two such awaits the code runs to completion without a
  signal handler or a timer callback in between.  pc names the await the
  orchestrator is suspended at; "next" and "finish" are positions inside a
  synchronous stretch, where no handler can run.

  Time is kept in milliseconds, relative: every pending SIGKILL escalation
  carries the time since its SIGTERM, the cooldown sleep carries the time it
  has left.  The clock moves from one timer event to the next.

  children keeps a handle only as long as it stands for something: the
  handles of the run in flight, groups that are alive, and groups with an
  escalation timer pending.

  The result files are kept as what has been written to them: the lines of
  run_summary.log, the per-run summary.json of each run directory, and every
  write of the aggregate summary.csv / summary.json.

  kvCacheBytesByMode names the bytes a baseline run captured by the run that
  logged them.

  The library functions are also followed on their own, with the orchestrator
  left in its initial state: SpecWait, SpecWaitNever and SpecWaitReady follow
  one call of waitForHttpOk or waitForHttpReady against a URL of one kind,
  SpecSampler one sampler of startGpuSampler, SpecParse one call of
  parseBenchOutput, SpecPort one call of findFreePort, SpecStamp the scratch
  path of one run id at two instants.
*)
EXTENDS Integers, Sequences, FiniteSets, TLC

VARIABLES
    modes,          \* run_matrix.ts:73   --modes, after splitList
    utils,          \* run_matrix.ts:74   --utils, after parseNumberList
    skipBaseline,   \* run_matrix.ts:76
    cooldownMs,     \* run_matrix.ts:85   cooldownSeconds * 1000
    cudaMulti,      \* CUDA_VISIBLE_DEVICES holds a comma (lib ensureSingleCudaVisible)
    tokenFile,      \* the service-account token file exists and is not empty
    pc,             \* where the orchestrator is suspended
    runIndex,       \* run_matrix.ts:445  number of runs started
    children,       \* every handle spawnLogged returned, with the state of its process group
    activeChildren, \* run_matrix.ts:112  the live-handle set
    summaryRows,    \* run_matrix.ts:111
    kvCacheBytesByMode, \* run_matrix.ts:113  the cache-size hint of each mode
    runSummaryLog,  \* the lines of <resultsRoot>/run_summary.log
    runSummaryJson, \* <runDir>/summary.json of every run directory that has one
    summaryFiles,   \* every write of <resultsRoot>/summary.csv and summary.json
    exitCode,       \* status the orchestrator exited with, Running while it runs
    healthStatus,   \* last status seen by waitForHttpReady in the current run
    readyStatus,    \* status each waitForHttpOk of the current run returned on
    benchInvoked,   \* runBench was called in the current run
    benchExit,      \* how the client process of the current run ended, "none" before
    teardownLog,    \* the steps the finally block of the current run took, in order
    benchResult,    \* run_matrix.ts:354  exit code and metrics of the current run
    benchError,     \* run_matrix.ts:359
    gpuSampler,     \* run_matrix.ts:361  "none", "running" or "stopped"
    gpuStats,       \* run_matrix.ts:360  what gpuSampler.stop() returned, or null
    sleepLeft,      \* time left of the cooldown sleep, run_matrix.ts:393
    shmPaths,       \* runs whose scratch path exists on disk
    cleanedUp,      \* why cleanup() ran before an exit, and the handles it went through
    faults,         \* spawn failures and unprompted process exits so far
    wait,           \* one call of waitForHttpOk followed on its own: its
                    \* arguments, the URL's behaviour, the time since the call
    sampler,        \* one telemetry sampler of startGpuSampler followed on its own
    parsed,         \* one call of parseBenchOutput: the client output, the result
    probe,          \* one call of findFreePort: the ports in use, the probing socket
    stamps          \* two scratch paths made for one run id at two instants

orchestrator ==
    << modes, utils, skipBaseline, cooldownMs, cudaMulti, tokenFile, pc, runIndex,
       children, activeChildren, summaryRows, kvCacheBytesByMode, runSummaryLog,
       runSummaryJson, summaryFiles, exitCode, healthStatus,
       readyStatus, benchInvoked, benchExit, teardownLog, benchResult, benchError,
       gpuSampler, gpuStats, sleepLeft, shmPaths, cleanedUp, faults >>

\* the library functions that are followed on their own
aside == << wait, sampler, parsed, probe, stamps >>

vars == << orchestrator, aside >>

config == << modes, utils, skipBaseline, cooldownMs, cudaMulti, tokenFile >>

files == << runSummaryLog, runSummaryJson, summaryFiles >>

-----------------------------------------------------------------------------
(* Bounds of the model *)

MaxModes == 2       \* longest --modes list
MaxUtils == 2       \* longest --utils list
MaxRuns == 2        \* matrices of at most this many runs
MaxFaults == 1      \* spawn failures and unprompted process exits in one matrix

ModeValues == {"single", "double"}
UtilValues == {5}               \* limiter targets, in tenths (0.5)
CooldownValues == {0, 5}        \* --cooldown-s, default 5 (run_matrix.ts:48)

Running == << >>                \* exitCode while the orchestrator has not exited
Exited(code) == << code >>      \* exitCode after process.exit(code)

(* Program constants *)
timeoutMs == 5000               \* killProcessTree's grace period
killPollMs == 200               \* period of killProcessTree's interval
EXIT_OK == 0
EXIT_FAILED == 1
EXIT_SIGINT == 130
EXIT_SIGTERM == 143

Null == << >>                   \* limiterTarget === null
Some(u) == << u >>

SeqsUpTo(S, n) == UNION { [1..k -> S] : k \in 0..n }

Min2(a, b) == IF a <= b THEN a ELSE b

SetMin(S) == CHOOSE x \in S : \A y \in S : x <= y

-----------------------------------------------------------------------------
(* The run matrix: main()'s two loops, run_matrix.ts:447-465 *)

Baselines(ms) == [i \in 1..Len(ms) |-> [mode |-> ms[i], limiterTarget |-> Null]]

\* for (const util of utils) for (const mode of modes)
Throttled(ms, us) ==
    [k \in 1..(Len(us) * Len(ms)) |->
        [mode |-> ms[((k - 1) % Len(ms)) + 1],
         limiterTarget |-> Some(us[((k - 1) \div Len(ms)) + 1])]]

\* a driver that would run the throttled runs before the baselines
RunSpecs_ThrottledFirst(ms, us, skip) ==
    Throttled(ms, us) \o (IF skip THEN << >> ELSE Baselines(ms))

RunSpecs(ms, us, skip) ==
    (IF skip THEN << >> ELSE Baselines(ms)) \o Throttled(ms, us)

\* run_matrix.ts:443-444
totalRuns == (IF skipBaseline THEN 0 ELSE Len(modes)) + Len(utils) * Len(modes)

Matrix == RunSpecs(modes, utils, skipBaseline)

CurSpec == Matrix[runIndex]

Key(r) == << r.mode, r.limiterTarget >>

\* run_matrix.ts:178-180 and 227-228: the run's directory under resultsRoot
makeRunLabel(t) == IF t = Null THEN << "baseline" >> ELSE << "limit", t[1] >>
runDir(spec) == << spec.mode >> \o makeRunLabel(spec.limiterTarget)

\* run_matrix.ts:232-234: one endpoint in single mode, two in double mode
baseUrls(mode) == IF mode = "double" THEN << "vllmA", "vllmB" >> ELSE << "vllmA" >>

-----------------------------------------------------------------------------
(* Process handles *)

Kinds == {"hypervisor", "vllmA", "vllmB"}

Handle(run, kind) == << run, kind >>
RunOf(h) == h[1]
KindOf(h) == h[2]

\* what spawnLogged returns: pid is undefined when the OS could not start it
NewChild(ok) ==
    [pid |-> ok, alive |-> ok, termSent |-> FALSE, termBy |-> "none",
     killSent |-> FALSE, esc |-> "none", age |-> 0, kv |-> Null]

\* first firing of the 200 ms interval at which Date.now() - started > timeoutMs
FirstKillPollMs == ((timeoutMs \div killPollMs) + 1) * killPollMs

\* a terminate that would arm the escalation whether or not the group exists
killProcessTree_AlwaysEscalate(c, by) ==
    IF ~c.pid THEN c
    ELSE [c EXCEPT !.termSent = c.alive, !.termBy = IF c.alive THEN by ELSE @,
                   !.esc = "pending", !.age = 0]

\* killProcessTree up to the setInterval: SIGTERM to the group, ESRCH ignored
killProcessTree(c, by) ==
    IF ~c.pid THEN c
    ELSE IF ~c.alive THEN c
    ELSE [c EXCEPT !.termSent = TRUE, !.termBy = by, !.esc = "pending", !.age = 0]

\* stopChild for each handle of hs: killProcessTree, then activeChildren.delete
\* a stopChild that would only forget the handle
StopAll_DeleteOnly(ch, hs, by) == ch

\* killProcessTree for each handle of hs
StopAll(ch, hs, by) ==
    [h \in DOMAIN ch |-> IF h \in hs THEN killProcessTree(ch[h], by) ELSE ch[h]]

\* a registerChild that would replace the set by the new handles
registerChild_Replace(active, hs) == hs

\* registerChild for each handle of hs: activeChildren.add
registerChild(active, hs) == active \cup hs

\* the activeChildren.delete of stopChild, for each handle of hs
deleteChild(active, hs) == active \ hs

\* process.exit(): the interval timers of killProcessTree die with the process
DropTimers(ch) ==
    [h \in DOMAIN ch |->
        IF ch[h].esc = "pending" THEN [ch[h] EXCEPT !.esc = "dropped"] ELSE ch[h]]

Spawned == DOMAIN children
Alive(h) == h \in Spawned /\ children[h].alive
PendingEsc == { h \in Spawned : children[h].esc = "pending" }
RunHandles(r) == { h \in Spawned : RunOf(h) = r }

-----------------------------------------------------------------------------
(* Readiness probes, lib.ts *)

\* getHttpStatus: 0 stands for a request that ended in an error or a timeout
HttpStatuses == {0, 200, 404}

\* a wait that would take any HTTP response for readiness
HttpOk_AnyResponse(status) == status > 0

\* waitForHttpOk returns on a 2xx status
HttpOk(status) == status >= 200 /\ status < 300

\* a wait that would also return when the request got no answer at all
HttpLive_Any(status) == status >= 0

\* a liveness wait that would insist on a 2xx status
HttpLive_OkOnly(status) == status >= 200 /\ status < 300

\* waitForHttpReady returns on any HTTP response
HttpLive(status) == status > 0

\* a wait that would stop after the first base URL
waitForPorts_First(urls) == << urls[1] >>

\* waitForPorts: the base URLs waited for, in order
waitForPorts(urls) == urls

\* a fixed serving port answers while some serving group bound to it lives
Listening(kind) == \E h \in Spawned : KindOf(h) = kind /\ children[h].alive

\* what the client did: how it ended and whether it printed its report
BenchOutcomes ==
    { [exit |-> "exit0", report |-> TRUE], [exit |-> "exit0", report |-> FALSE],
      [exit |-> "exit1", report |-> FALSE], [exit |-> "noExitCode", report |-> FALSE] }

\* runBench: exitCode: result.exitCode ?? 0
runBenchExitCode(outcome) == IF outcome.exit = "exit1" THEN 1 ELSE 0

\* parseBenchOutput on the client's output: the metrics found, possibly none
runBenchMetrics(outcome) == IF outcome.report THEN "parsed" ELSE "empty"

\* run_matrix.ts:354-358: benchResult before runBench has returned
InitialBenchResult == [exitCode |-> 1, metrics |-> "empty"]

\* gpuSampler.stop(): null when no sample was collected
samplerStop(hasSamples) == IF hasSamples THEN Some("stats") ELSE Null

\* a catch block that would swallow the error instead of keeping its message
catchError_Swallow(err) == "none"

\* run_matrix.ts:369-371: benchError = err.message
catchError(err) == err

-----------------------------------------------------------------------------
(* Results: the row of a run and the files it is written to *)

\* run_matrix.ts:397-416: the row pushed to summaryRows
RunResult(spec, result, error, stats) ==
    [mode |-> spec.mode, limiterTarget |-> spec.limiterTarget,
     metrics |-> result.metrics, benchExitCode |-> result.exitCode,
     benchError |-> error, gpuSamples |-> stats]

\* run_matrix.ts:227: runId, the same string as the run directory's name
runId(spec) == runDir(spec)

\* run_matrix.ts:417-423: the run's line of run_summary.log
summaryLine(spec, result, error) ==
    [runId |-> runId(spec), exit |-> result.exitCode, error |-> error,
     tokensPerSecond |-> result.metrics]

\* a log that would be rewritten with every line
appendFileSync_Overwrite(log, line) == << line >>

\* run_matrix.ts:424: fs.appendFileSync
appendFileSync(log, line) == Append(log, line)

\* run_matrix.ts:426-439: <runDir>/summary.json, replacing what was there
writeRunSummary(json, spec, result, error, stats) ==
    (runDir(spec) :> [mode |-> spec.mode, limiterTarget |-> spec.limiterTarget,
                      bench |-> result, benchError |-> error, gpu |-> stats])
    @@ json

\* run_matrix.ts:70: null and undefined become the empty field
toCsvValue(value) == IF value = Null THEN "" ELSE ToString(value[1])

\* run_matrix.ts:472-496: the columns of one row; benchError has no column
csvRow(row) ==
    << row.mode, toCsvValue(row.limiterTarget),
       IF row.metrics = "empty" THEN "" ELSE row.metrics,
       ToString(row.benchExitCode), toCsvValue(row.gpuSamples) >>

csvHeader == << "mode", "limiterTarget", "metrics", "benchExitCode", "gpuSamples" >>

\* a report that would lose its first row to the header line
csvLines_DropFirst(rows) ==
    << csvHeader >> \o [j \in 1..(Len(rows) - 1) |-> csvRow(rows[j + 1])]

\* run_matrix.ts:467-497: the header line, then one line per row
csvLines(rows) == << csvHeader >> \o [j \in 1..Len(rows) |-> csvRow(rows[j])]

\* run_matrix.ts:498-499: both aggregate reports are written
writeSummary(written, rows) ==
    Append(written, [csv |-> csvLines(rows), json |-> rows])

\* an orchestrator that would report a failed benchmark in its exit status
mainExitCode_FailOnBench(rows) ==
    IF \E j \in 1..Len(rows) : rows[j].benchExitCode # 0 THEN EXIT_FAILED ELSE EXIT_OK

\* main() resolves and nothing sets an exit status: the process ends with 0
mainExitCode(rows) == EXIT_OK

-----------------------------------------------------------------------------
(* Initial state: the command line and the environment *)

\* no call of waitForHttpOk is followed
NoWait ==
    [phase |-> "idle", fn |-> "none", url |-> "none", failsFirst |-> 0,
     intervalMs |-> 0, timeoutMs |-> 0, elapsed |-> 0, tested |-> 0, polls |-> 0,
     lastStatus |-> 0, lastError |-> Null, error |-> Null]

\* no sampler is followed
NoSampler ==
    [timer |-> "none", stopped |-> FALSE, inFlight |-> FALSE, queries |-> 0,
     ticks |-> 0, skipped |-> 0, samples |-> << >>, collected |-> 0,
     result |-> "none"]

\* no call of parseBenchOutput is followed
NoParse == [text |-> << >>, result |-> "none"]

\* no call of findFreePort is followed
NoProbe ==
    [phase |-> "none", preferred |-> Null, listenOn |-> 0, busy |-> {},
     firstFree |-> FALSE, open |-> FALSE, bound |-> 0, failures |-> 0,
     result |-> Null]

\* no scratch path is followed
NoStamps == [spec |-> Null, first |-> Null, second |-> Null, paths |-> << >>]

\* the orchestrator's module-level state before main() is called
Loaded ==
    /\ pc = "next"
    /\ runIndex = 0
    /\ children = [h \in {} |-> NewChild(FALSE)]
    /\ activeChildren = {}
    /\ summaryRows = << >>
    /\ kvCacheBytesByMode = [m \in ModeValues |-> Null]
    /\ runSummaryLog = << >>
    /\ runSummaryJson = [d \in {} |-> Null]
    /\ summaryFiles = << >>
    /\ exitCode = Running
    /\ healthStatus = 0
    /\ readyStatus = << >>
    /\ benchInvoked = FALSE
    /\ benchExit = "none"
    /\ teardownLog = << >>
    /\ benchResult = InitialBenchResult
    /\ benchError = "none"
    /\ gpuSampler = "none"
    /\ gpuStats = Null
    /\ sleepLeft = 0
    /\ shmPaths = {}
    /\ cleanedUp = [cause |-> "none", handles |-> {}]
    /\ faults = 0

Init ==
    /\ modes \in SeqsUpTo(ModeValues, MaxModes)
    /\ utils \in SeqsUpTo(UtilValues, MaxUtils)
    /\ skipBaseline \in BOOLEAN
    /\ Len(RunSpecs(modes, utils, skipBaseline)) <= MaxRuns
    /\ cooldownMs \in { c * 1000 : c \in CooldownValues }
    /\ cudaMulti \in BOOLEAN
    /\ tokenFile \in BOOLEAN
    /\ Loaded
    /\ wait = NoWait
    /\ sampler = NoSampler
    /\ parsed = NoParse
    /\ probe = NoProbe
    /\ stamps = NoStamps

\* the orchestrator is suspended at an await that waits for an outside event
AtYield ==
    /\ exitCode = Running
    /\ \/ pc \in {"findPort", "awaitLimiter", "awaitServers", "bench", "done"}
       \/ pc = "cooldown" /\ sleepLeft > 0

-----------------------------------------------------------------------------
(* cleanup() and the ways the orchestrator exits *)

\* a cleanup() that would forget the handles without signalling them
cleanup_NoKill(ch, active) == ch

\* run_matrix.ts:126-131
cleanup(ch, active) == StopAll(ch, active, "cleanup")

\* process.exit(code): the locals of the run in flight are gone
ProcessExit(code) ==
    /\ exitCode' = Exited(code)
    /\ pc' = "exited"
    /\ healthStatus' = 0
    /\ readyStatus' = << >>
    /\ benchInvoked' = FALSE
    /\ benchExit' = "none"
    /\ teardownLog' = << >>
    /\ benchResult' = InitialBenchResult
    /\ benchError' = "none"
    /\ gpuSampler' = "none"
    /\ gpuStats' = Null
    /\ sleepLeft' = 0

\* after the exit only the groups still alive and the handles cleanup()
\* went through are of interest
AtExit(ch, active) ==
    LET keep == { h \in DOMAIN ch : ch[h].alive \/ h \in active }
    IN  [h \in keep |-> ch[h]]

\* cleanup() followed by process.exit(code), with the process groups ch and
\* the live-handle set active
CleanupAndExitFrom(ch, active, cause, code) ==
    /\ cleanedUp' = [cause |-> cause, handles |-> active]
    /\ children' = AtExit(DropTimers(cleanup(ch, active)), active)
    /\ activeChildren' = {}
    /\ faults' = 0
    /\ ProcessExit(code)

CleanupAndExit(cause, code) ==
    CleanupAndExitFrom(children, activeChildren, cause, code)

\* a catch handler that would exit without cleanup()
OrchestrationFailure_NoCleanup(error) ==
    /\ cleanedUp' = [cause |-> error, handles |-> activeChildren]
    /\ children' = AtExit(DropTimers(children), activeChildren)
    /\ activeChildren' = {}
    /\ faults' = 0
    /\ ProcessExit(EXIT_FAILED)

\* main().catch: an error left runOne: cleanup(), then process.exit(1)
OrchestrationFailure(error) == CleanupAndExit(error, EXIT_FAILED)

SignalExit(sig) == IF sig = "SIGINT" THEN EXIT_SIGINT ELSE EXIT_SIGTERM

\* process.on('SIGINT' | 'SIGTERM'): cleanup(), then process.exit(130 | 143)
Interrupt(sig) ==
    /\ AtYield
    /\ CleanupAndExit(sig, SignalExit(sig))
    /\ UNCHANGED << config, aside, kvCacheBytesByMode, runIndex, summaryRows, files, shmPaths >>

-----------------------------------------------------------------------------
(* runOne, run_matrix.ts:222-440 *)

\* run_matrix.ts:318-323: the hint of the mode in a throttled run, with
\* VLLM_KV_CACHE_MEMORY_BYTES not set in the environment
\* a hint that would be passed whatever the run
kvCacheBytesArg_AnyRun(spec, hints) == hints[spec.mode]

kvCacheBytesArg(spec, hints) ==
    IF spec.limiterTarget # Null THEN hints[spec.mode] ELSE Null

\* spawnLogged of the serving processes, run_matrix.ts:312-352: vllmArgs gets
\* --kv-cache-memory-bytes, vllmArgsB is built without it
SpawnServers(ch, run, mode, okA, okB, kvArg) ==
    LET withA == (Handle(run, "vllmA") :> [NewChild(okA) EXCEPT !.kv = kvArg]) @@ ch
    IN  IF mode = "double"
        THEN (Handle(run, "vllmB") :> NewChild(okB)) @@ withA
        ELSE withA

\* spawns of the serving processes that the OS refused
SpawnFailures(mode, okA, okB) ==
    (IF okA THEN 0 ELSE 1) + (IF mode = "double" /\ ~okB THEN 1 ELSE 0)

\* handles of earlier runs that stand for nothing any more: the group is gone
\* and no escalation timer is pending
Reap(ch, run) ==
    LET keep == { h \in DOMAIN ch :
                    RunOf(h) >= run \/ ch[h].alive \/ ch[h].esc = "pending" }
    IN  [h \in keep |-> ch[h]]

ServerHandles(run, mode) ==
    { Handle(run, baseUrls(mode)[i]) : i \in 1..Len(baseUrls(mode)) }

\* main()'s loop calls runOne; runOne runs up to its first await
StartRun ==
    /\ pc = "next"
    /\ exitCode = Running
    /\ runIndex < Len(Matrix)
    /\ runIndex' = runIndex + 1
    /\ LET spec == Matrix[runIndex + 1]
           locals == /\ healthStatus' = 0
                     /\ readyStatus' = << >>
                     /\ benchInvoked' = FALSE
                     /\ benchExit' = "none"
                     /\ teardownLog' = << >>
                     /\ benchResult' = InitialBenchResult
                     /\ benchError' = "none"
                     /\ gpuSampler' = "none"
                     /\ gpuStats' = Null
                     /\ UNCHANGED sleepLeft
       IN  IF cudaMulti
           THEN OrchestrationFailure("CudaVisible") \* ensureSingleCudaVisible throws
           ELSE IF spec.limiterTarget # Null
           THEN /\ pc' = "findPort"      \* await findFreePort(...)
                /\ locals
                /\ children' = Reap(children, runIndex + 1)
                /\ UNCHANGED << activeChildren, exitCode, faults, cleanedUp >>
           ELSE \E okA, okB \in BOOLEAN :
                /\ locals
                /\ spec.mode # "double" => okB
                /\ faults + SpawnFailures(spec.mode, okA, okB) <= MaxFaults
                /\ faults' = faults + SpawnFailures(spec.mode, okA, okB)
                /\ children' = SpawnServers(Reap(children, runIndex + 1),
                                            runIndex + 1, spec.mode, okA, okB,
                                            kvCacheBytesArg(spec, kvCacheBytesByMode))
                /\ activeChildren' = registerChild(activeChildren,
                                                    ServerHandles(runIndex + 1, spec.mode))
                /\ pc' = "awaitServers"
                /\ UNCHANGED << exitCode, cleanedUp >>
    /\ UNCHANGED << config, aside, kvCacheBytesByMode, summaryRows, files, shmPaths >>

\* run_matrix.ts:272-309: ensureExists twice, then the supervisor is spawned
PortFound ==
    /\ pc = "findPort"
    /\ exitCode = Running
    /\ \E binExists, soExists, okH \in BOOLEAN :
          IF ~(binExists /\ soExists)
          THEN /\ OrchestrationFailure("NotFound") \* ensureExists throws out of runOne
               /\ okH
               /\ UNCHANGED shmPaths
          ELSE /\ faults + (IF okH THEN 0 ELSE 1) <= MaxFaults
               /\ faults' = faults + (IF okH THEN 0 ELSE 1)
               /\ children' = (Handle(runIndex, "hypervisor") :> NewChild(okH)) @@ children
               /\ activeChildren' = registerChild(activeChildren,
                                                   {Handle(runIndex, "hypervisor")})
               \* cleanupShmPath, then the started supervisor creates the path
               /\ shmPaths' = IF okH THEN shmPaths \cup {runIndex}
                                    ELSE shmPaths \ {runIndex}
               /\ pc' = "awaitLimiter"
               /\ UNCHANGED << exitCode, healthStatus, readyStatus, benchInvoked,
                               benchExit, teardownLog, benchResult, benchError, gpuSampler, gpuStats, sleepLeft,
                               cleanedUp >>
    /\ UNCHANGED << config, aside, kvCacheBytesByMode, runIndex, summaryRows, files >>

\* waitForHttpReady returns: the serving processes are spawned
LimiterReady ==
    /\ pc = "awaitLimiter"
    /\ exitCode = Running
    /\ \E status \in HttpStatuses, okA, okB \in BOOLEAN :
          /\ HttpLive(status)
          /\ status > 0 => children[Handle(runIndex, "hypervisor")].alive
          /\ CurSpec.mode # "double" => okB
          /\ faults + SpawnFailures(CurSpec.mode, okA, okB) <= MaxFaults
          /\ faults' = faults + SpawnFailures(CurSpec.mode, okA, okB)
          /\ healthStatus' = status
          /\ children' = SpawnServers(children, runIndex, CurSpec.mode, okA, okB,
                                      kvCacheBytesArg(CurSpec, kvCacheBytesByMode))
          /\ activeChildren' = registerChild(activeChildren,
                                              ServerHandles(runIndex, CurSpec.mode))
    /\ pc' = "awaitServers"
    /\ UNCHANGED << config, aside, kvCacheBytesByMode, runIndex, summaryRows, files, exitCode, readyStatus,
                    benchInvoked, benchExit, teardownLog, benchResult, benchError,
                    gpuSampler, gpuStats, sleepLeft, shmPaths, cleanedUp >>

\* waitForHttpReady throws after 60 s: the error leaves runOne
LimiterTimeout ==
    /\ pc = "awaitLimiter"
    /\ exitCode = Running
    /\ PendingEsc = {}
    /\ OrchestrationFailure("Timeout")
    /\ UNCHANGED << config, aside, kvCacheBytesByMode, runIndex, summaryRows, files, shmPaths >>

\* run_matrix.ts:384-391: what the baseline run's teardown makes of the hint of
\* its mode.  The bytes a run's server logged are named by the run; a log
\* without the line, or with the line left by an earlier run in the same
\* directory, leaves the hint as it is.
captureKvCacheBytes(hints, spec, run, logged) ==
    IF spec.limiterTarget = Null /\ logged
    THEN [hints EXCEPT ![spec.mode] = Some(run)]
    ELSE hints

\* a finally block that would sleep the cooldown before it stops anything
teardownSteps_SleepFirst(spec, sampling, cooldown) ==
    (IF cooldown > 0 THEN << << "sleep" >> >> ELSE << >>)
    \o (IF sampling THEN << << "gpuSampler.stop" >> >> ELSE << >>)
    \o << << "stopChild", "vllmA" >> >>
    \o (IF spec.mode = "double" THEN << << "stopChild", "vllmB" >> >> ELSE << >>)
    \o (IF spec.limiterTarget # Null
        THEN << << "stopChild", "hypervisor" >>, << "cleanupShmPath" >> >>
        ELSE << >>)
    \o (IF spec.limiterTarget = Null THEN << << "parseKvCacheBytes" >> >> ELSE << >>)

\* the statements of the finally block that apply, in the order of the code
teardownSteps(spec, sampling, cooldown) ==
    (IF sampling THEN << << "gpuSampler.stop" >> >> ELSE << >>)                \* 373-375
    \o << << "stopChild", "vllmA" >> >>                                        \* 376
    \o (IF spec.mode = "double" THEN << << "stopChild", "vllmB" >> >> ELSE << >>) \* 377
    \o (IF spec.limiterTarget # Null                                           \* 378-383
        THEN << << "stopChild", "hypervisor" >>, << "cleanupShmPath" >> >>
        ELSE << >>)
    \o (IF spec.limiterTarget = Null THEN << << "parseKvCacheBytes" >> >> ELSE << >>) \* 384-391
    \o (IF cooldown > 0 THEN << << "sleep" >> >> ELSE << >>)                   \* 392-394

\* step occurs in the sequence steps
HasStep(steps, step) == \E i \in 1..Len(steps) : steps[i] = step

\* the finally block up to the cooldown sleep, run_matrix.ts:372-394, entered
\* with benchError = error, benchResult = result and the client ended as exit
Teardown(error, result, exit) ==
    LET steps == teardownSteps(CurSpec, gpuSampler = "running", cooldownMs)
        stops == { h \in RunHandles(runIndex) : HasStep(steps, << "stopChild", KindOf(h) >>) }
        stopped == StopAll(children, stops, "runOne")
        active == deleteChild(activeChildren, stops)
    IN  \E hasSamples, readOk, logged \in BOOLEAN :
          \* a sampler that collected nothing and a server log that cannot be
          \* read count as faults
          LET after == faults + (IF gpuSampler = "running" /\ ~hasSamples THEN 1 ELSE 0)
                              + (IF readOk THEN 0 ELSE 1)
          IN  /\ gpuSampler # "running" => hasSamples
              /\ ~HasStep(steps, << "parseKvCacheBytes" >>) => readOk
              /\ logged => /\ HasStep(steps, << "parseKvCacheBytes" >>)
                           /\ readOk
                           /\ children[Handle(runIndex, "vllmA")].pid
              /\ after <= MaxFaults
              /\ shmPaths' = IF HasStep(steps, << "cleanupShmPath" >>)
                              THEN shmPaths \ {runIndex} ELSE shmPaths
              /\ IF readOk
                 THEN /\ benchError' = error
                      /\ benchResult' = result
                      /\ benchExit' = exit
                      /\ teardownLog' = steps
                      /\ IF HasStep(steps, << "gpuSampler.stop" >>)
                         THEN gpuSampler' = "stopped" /\ gpuStats' = samplerStop(hasSamples)
                         ELSE UNCHANGED << gpuSampler, gpuStats >>
                      /\ faults' = after
                      /\ healthStatus' = 0
                      /\ children' = stopped
                      /\ activeChildren' = active
                      /\ kvCacheBytesByMode' =
                            captureKvCacheBytes(kvCacheBytesByMode, CurSpec, runIndex, logged)
                      /\ IF HasStep(steps, << "sleep" >>)
                         THEN pc' = "cooldown" /\ sleepLeft' = cooldownMs
                         ELSE pc' = "finish" /\ sleepLeft' = 0
                      /\ UNCHANGED << exitCode, readyStatus, benchInvoked, cleanedUp >>
                 \* fs.readFileSync in parseKvCacheBytes throws out of the finally
                 \* block: the error leaves runOne
                 ELSE /\ CleanupAndExitFrom(stopped, active, "ReadLog", EXIT_FAILED)
                      /\ UNCHANGED kvCacheBytesByMode

\* one waitForHttpOk of waitForPorts returns; after the last, the benchmark starts
ServerReady ==
    /\ pc = "awaitServers"
    /\ exitCode = Running
    /\ LET urls == waitForPorts(baseUrls(CurSpec.mode))
       IN  /\ \E status \in HttpStatuses :
                /\ HttpOk(status)
                /\ status > 0 => Listening(urls[Len(readyStatus) + 1])
                /\ readyStatus' = Append(readyStatus, status)
           /\ IF Len(readyStatus) + 1 = Len(urls)
              THEN /\ gpuSampler' = "running"
                   /\ UNCHANGED gpuStats
                   /\ benchInvoked' = TRUE
                   /\ pc' = "bench"
              ELSE UNCHANGED << gpuSampler, gpuStats, benchInvoked, pc >>
    /\ UNCHANGED << config, aside, kvCacheBytesByMode, runIndex, children, activeChildren, summaryRows, files,
                    exitCode, healthStatus, benchExit, teardownLog, benchResult, benchError,
                    sleepLeft, shmPaths, cleanedUp, faults >>

\* a waitForHttpOk throws after 180 s: caught, the benchmark is skipped
ServersTimeout ==
    /\ pc = "awaitServers"
    /\ exitCode = Running
    /\ PendingEsc = {}
    /\ Teardown(catchError("timeout"), benchResult, "none")
    /\ UNCHANGED << config, aside, runIndex, summaryRows, files >>

\* runBench returns
BenchDone ==
    /\ pc = "bench"
    /\ exitCode = Running
    /\ \E outcome \in BenchOutcomes :
          Teardown(benchError, [exitCode |-> runBenchExitCode(outcome),
                                metrics |-> runBenchMetrics(outcome)], outcome.exit)
    /\ UNCHANGED << config, aside, runIndex, summaryRows, files >>

\* run_matrix.ts:397-439: the run's row is pushed and runOne returns
FinishRun ==
    /\ exitCode = Running
    /\ pc = "finish" \/ (pc = "cooldown" /\ sleepLeft = 0)
    /\ summaryRows' = Append(summaryRows,
                              RunResult(CurSpec, benchResult, benchError, gpuStats))
    /\ runSummaryLog' = appendFileSync(runSummaryLog,
                                       summaryLine(CurSpec, benchResult, benchError))
    /\ runSummaryJson' = writeRunSummary(runSummaryJson, CurSpec, benchResult,
                                         benchError, gpuStats)
    /\ UNCHANGED summaryFiles
    /\ pc' = "next"
    /\ benchExit' = "none"
    /\ UNCHANGED << config, aside, kvCacheBytesByMode, runIndex, children, activeChildren, exitCode,
                    healthStatus, readyStatus, benchInvoked, teardownLog, benchResult,
                    benchError, gpuSampler, gpuStats, sleepLeft, shmPaths, cleanedUp, faults >>

-----------------------------------------------------------------------------
(* main() after the loops, and the end of the process *)

\* run_matrix.ts:467-501: summary.csv and summary.json are written
FinishMatrix ==
    /\ pc = "next"
    /\ exitCode = Running
    /\ runIndex = Len(Matrix)
    /\ pc' = "done"
    /\ children' = Reap(children, runIndex + 1)
    /\ summaryFiles' = writeSummary(summaryFiles, summaryRows)
    /\ UNCHANGED << config, aside, kvCacheBytesByMode, runIndex, activeChildren, summaryRows, runSummaryLog,
                    runSummaryJson, exitCode, healthStatus, readyStatus, benchInvoked,
                    benchExit, teardownLog,
                    benchResult, benchError, gpuSampler, gpuStats, sleepLeft, shmPaths,
                    cleanedUp, faults >>

\* the event loop drains: no timer is pending and no child handle is open
NaturalExit ==
    /\ pc = "done"
    /\ exitCode = Running
    /\ PendingEsc = {}
    /\ \A h \in Spawned : ~children[h].alive
    /\ ProcessExit(mainExitCode(summaryRows))
    /\ children' = AtExit(children, {})
    /\ UNCHANGED << config, aside, kvCacheBytesByMode, runIndex, activeChildren, summaryRows, files,
                    shmPaths, cleanedUp, faults >>

-----------------------------------------------------------------------------
(* The environment: process groups and the clock *)

\* a process group ends by itself (it finished, crashed, or obeyed SIGTERM)
ProcExit ==
    /\ AtYield
    /\ \E h \in Spawned :
          /\ children[h].alive
          /\ children' = [Reap(children, runIndex) EXCEPT ![h].alive = FALSE]
          /\ IF children[h].termSent
             THEN UNCHANGED faults
             ELSE faults < MaxFaults /\ faults' = faults + 1
    /\ UNCHANGED << config, aside, kvCacheBytesByMode, pc, runIndex, activeChildren, summaryRows, files, exitCode,
                    healthStatus, readyStatus, benchInvoked, benchExit, teardownLog, benchResult,
                    benchError, gpuSampler, gpuStats, sleepLeft, shmPaths, cleanedUp >>

\* a group that was cleanedUp and whose escalation died with the orchestrator
Orphans ==
    { h \in Spawned : /\ children[h].esc = "dropped"
                      /\ children[h].alive
                      /\ children[h].age < FirstKillPollMs }

\* time to the next timer of the orchestrator
TimersDue ==
    IF exitCode = Running
    THEN { FirstKillPollMs - children[h].age : h \in PendingEsc }
         \cup (IF pc = "cooldown" /\ sleepLeft > 0 THEN {sleepLeft} ELSE {})
    ELSE { FirstKillPollMs - children[h].age : h \in Orphans }

\* killProcessTree's interval callback after d more milliseconds
Advance(c, d) ==
    IF c.esc = "pending"
    THEN IF c.age + d >= FirstKillPollMs
         THEN [c EXCEPT !.age = FirstKillPollMs, !.esc = "fired",
                        !.killSent = c.alive, !.alive = FALSE]
         ELSE [c EXCEPT !.age = c.age + d]
    ELSE IF c.esc = "dropped" /\ c.alive /\ c.age < FirstKillPollMs
    THEN [c EXCEPT !.age = Min2(c.age + d, FirstKillPollMs)]
    ELSE c

\* time passes up to the next timer, which then fires
Tick ==
    /\ AtYield \/ pc = "exited"
    /\ TimersDue # {}
    /\ LET d == SetMin(TimersDue)
           old == Reap(children, runIndex)
       IN  /\ children' = [h \in DOMAIN old |-> Advance(old[h], d)]
           /\ sleepLeft' = IF pc = "cooldown" /\ sleepLeft > 0
                           THEN sleepLeft - d ELSE sleepLeft
    /\ UNCHANGED << config, aside, kvCacheBytesByMode, pc, runIndex, activeChildren, summaryRows, files, exitCode,
                    healthStatus, readyStatus, benchInvoked, benchExit, teardownLog, benchResult,
                    benchError, gpuSampler, gpuStats, shmPaths, cleanedUp, faults >>

-----------------------------------------------------------------------------

Next ==
    \/ StartRun
    \/ PortFound
    \/ LimiterReady
    \/ LimiterTimeout
    \/ ServerReady
    \/ ServersTimeout
    \/ BenchDone
    \/ FinishRun
    \/ FinishMatrix
    \/ NaturalExit
    \/ \E sig \in {"SIGINT", "SIGTERM"} : Interrupt(sig)
    \/ ProcExit
    \/ Tick

Spec == Init /\ [][Next]_vars

-----------------------------------------------------------------------------
(* waitForHttpOk and waitForHttpReady on their own, lib.ts *)

MaxFailsFirst == 3      \* most polls that fail before the URL answers 200
MaxRequestMs == 1       \* longest a request takes to end
MaxLateMs == 1          \* most a setTimeout fires late

IntervalValues == {1, 2}        \* intervalMs
TimeoutValues == {0, 2, 4, 7}   \* timeoutMs

requestCapMs == 5000            \* getHttpStatus(url, Math.min(5000, timeoutMs))

\* what the k-th request to the URL can end in: 0 (error), a non-2xx status, 200
UrlStatuses(k, failsFirst) == IF k <= failsFirst THEN {0, 404} ELSE {200}

\* a URL that never answers 2xx: a network failure or a non-2xx status
NeverOkStatuses == {0, 404}

\* a URL that can end every request in any way
ProbeStatuses == {0, 200, 404, 500}

\* what the next request of the wait can end in, by the kind of URL
PollStatuses(w) ==
    CASE w.url = "failsFirst" -> UrlStatuses(w.polls + 1, w.failsFirst)
      [] w.url = "never" -> NeverOkStatuses
      [] OTHER -> ProbeStatuses

\* how long a request can take: never longer than the request timeout
RequestMs(timeout) == 0..Min2(MaxRequestMs, Min2(requestCapMs, timeout))

\* the condition on which each of the two waits returns
waitReturns(fn, status) ==
    IF fn = "waitForHttpReady" THEN HttpLive(status) ELSE HttpOk(status)

\* a wait that would report the first failure it saw
lastErrorAfter_KeepFirst(prev, status) ==
    IF prev # Null THEN prev
    ELSE IF status = 0 THEN << "error" >> ELSE << "HTTP", status >>

\* lastError = new Error(`HTTP ${status}`), or the error the request threw
lastErrorAfter(prev, status) ==
    IF status = 0 THEN << "error" >> ELSE << "HTTP", status >>

\* const reason = lastError ? lastError.message : 'timeout'
timeoutReason(lastError) == IF lastError = Null THEN << "timeout" >> ELSE lastError

\* a call of fn(url, {timeoutMs, intervalMs}) right after const deadline = ...
WaitCall(fn, url, n, t, limit) ==
    [phase |-> "check", fn |-> fn, url |-> url, failsFirst |-> n,
     intervalMs |-> t, timeoutMs |-> limit, elapsed |-> 0, tested |-> 0,
     polls |-> 0, lastStatus |-> 0, lastError |-> Null, error |-> Null]

\* the orchestrator is not followed: no command line, nothing started
Idle ==
    /\ modes = << >> /\ utils = << >> /\ skipBaseline = FALSE
    /\ cooldownMs = 0 /\ cudaMulti = FALSE /\ tokenFile = TRUE
    /\ Loaded

\* waitForHttpOk on a URL whose first n polls fail
InitWait ==
    /\ Idle
    /\ sampler = NoSampler /\ parsed = NoParse
    /\ probe = NoProbe /\ stamps = NoStamps
    /\ \E n \in 0..MaxFailsFirst, t \in IntervalValues, limit \in TimeoutValues :
          wait = WaitCall("waitForHttpOk", "failsFirst", n, t, limit)

\* waitForHttpOk on a URL that never answers 2xx
InitWaitNever ==
    /\ Idle
    /\ sampler = NoSampler /\ parsed = NoParse
    /\ probe = NoProbe /\ stamps = NoStamps
    /\ \E t \in IntervalValues, limit \in TimeoutValues :
          wait = WaitCall("waitForHttpOk", "never", 0, t, limit)

\* waitForHttpReady on a URL that can end each request in any way
InitWaitReady ==
    /\ Idle
    /\ sampler = NoSampler /\ parsed = NoParse
    /\ probe = NoProbe /\ stamps = NoStamps
    /\ \E t \in IntervalValues, limit \in TimeoutValues :
          wait = WaitCall("waitForHttpReady", "any", 0, t, limit)

\* while (Date.now() < deadline), and the throw after the loop
WaitCheck ==
    /\ wait.phase = "check"
    /\ wait' = IF wait.elapsed < wait.timeoutMs
               THEN [wait EXCEPT !.phase = "request", !.tested = wait.elapsed]
               ELSE [wait EXCEPT !.phase = "thrown",
                                 !.error = timeoutReason(wait.lastError)]
    /\ UNCHANGED << orchestrator, sampler, parsed, probe, stamps >>

\* await getHttpStatus(...): return on success, else keep the failure and sleep
WaitPoll ==
    /\ wait.phase = "request"
    /\ \E d \in RequestMs(wait.timeoutMs), status \in PollStatuses(wait) :
          wait' = IF waitReturns(wait.fn, status)
                  THEN [wait EXCEPT !.elapsed = @ + d, !.polls = @ + 1,
                                    !.lastStatus = status, !.phase = "returned"]
                  ELSE [wait EXCEPT !.elapsed = @ + d, !.polls = @ + 1,
                                    !.lastStatus = status,
                                    !.lastError = lastErrorAfter(@, status),
                                    !.phase = "sleep"]
    /\ UNCHANGED << orchestrator, sampler, parsed, probe, stamps >>

\* await new Promise((r) => setTimeout(r, intervalMs))
WaitSleep ==
    /\ wait.phase = "sleep"
    /\ \E late \in 0..MaxLateMs :
          wait' = [wait EXCEPT !.elapsed = @ + wait.intervalMs + late,
                               !.phase = "check"]
    /\ UNCHANGED << orchestrator, sampler, parsed, probe, stamps >>

NextWait ==
    \/ WaitCheck
    \/ WaitPoll
    \/ WaitSleep

SpecWait == InitWait /\ [][NextWait]_vars

SpecWaitNever == InitWaitNever /\ [][NextWait]_vars

SpecWaitReady == InitWaitReady /\ [][NextWait]_vars

-----------------------------------------------------------------------------
(* startGpuSampler on its own, lib.ts: the timer, the queries, stop() *)

MaxTicks == 3           \* timer ticks of one sampler

\* the six metrics of a sample, in the order of the query's columns
Keys == << "utilGpu", "utilMem", "memUsedMiB", "memTotalMiB", "powerW", "tempC" >>

\* first lines nvidia-smi can print, each field after Number(): << n >> is a
\* finite number, << >> is NaN
SmiLines ==
    { << Some(1), Some(2), Some(3), Some(4), Some(5), Some(6) >>,
      << Some(6), Some(1), Some(3), Some(9), Some(0), Some(2) >>,
      << Some(1), Some(2), Some(3), Some(4), Some(5) >>,
      << Some(1), Null, Some(3), Some(4), Some(5), Some(6) >> }

\* how a query ends: execa throws, or resolves with a first line, maybe empty
QueryOutcomes ==
    { [ok |-> FALSE, line |-> << >>], [ok |-> TRUE, line |-> << >>] }
    \cup { [ok |-> TRUE, line |-> l] : l \in SmiLines }

\* parseGpuSample: null unless there are six fields and all six are finite
parseGpuSample(line) ==
    IF Len(line) < Len(Keys) THEN Null
    ELSE IF \E i \in 1..Len(Keys) : line[i] = Null THEN Null
    ELSE Some([i \in 1..Len(Keys) |-> line[i][1]])

\* samples.map((s) => s[key])
column(samples, i) == [j \in 1..Len(samples) |-> samples[j][i]]

\* values.reduce((a, b) => a + b, 0)
RECURSIVE reduceSum(_)
reduceSum(values) ==
    IF values = << >> THEN 0
    ELSE reduceSum(SubSeq(values, 1, Len(values) - 1)) + values[Len(values)]

\* a maximum that would be the first value
mathMax_First(values) == values[1]

\* Math.max(...values), values not empty
RECURSIVE mathMax(_)
mathMax(values) ==
    IF Len(values) = 1 THEN values[1]
    ELSE LET rest == mathMax(SubSeq(values, 1, Len(values) - 1))
             last == values[Len(values)]
         IN  IF last > rest THEN last ELSE rest

\* stop(): null without samples; else the count and, per metric, avg as the
\* quotient sum / count kept exact, and max
stop(samples) ==
    IF Len(samples) = 0 THEN Null
    ELSE Some([samples |-> Len(samples),
               avg |-> [i \in 1..Len(Keys) |->
                           [sum |-> reduceSum(column(samples, i)),
                            count |-> Len(column(samples, i))]],
               max |-> [i \in 1..Len(Keys) |-> mathMax(column(samples, i))]])

\* a timer callback that would not look at inFlight
tickStarts_IgnoreInFlight(stopped, inFlight) == ~stopped

\* if (stopped || inFlight) return
tickStarts(stopped, inFlight) == ~(stopped \/ inFlight)

\* startGpuSampler(intervalMs) has returned
InitSampler ==
    /\ Idle
    /\ wait = NoWait /\ parsed = NoParse
    /\ probe = NoProbe /\ stamps = NoStamps
    /\ sampler = [NoSampler EXCEPT !.timer = "running"]

\* the interval fires: a query is started unless one is in flight
SamplerTick ==
    /\ sampler.timer = "running"
    /\ sampler.ticks < MaxTicks
    /\ sampler' = IF tickStarts(sampler.stopped, sampler.inFlight)
                  THEN [sampler EXCEPT !.ticks = @ + 1, !.inFlight = TRUE,
                                       !.queries = @ + 1]
                  ELSE [sampler EXCEPT !.ticks = @ + 1, !.skipped = @ + 1]
    /\ UNCHANGED << orchestrator, wait, parsed, probe, stamps >>

\* a query ends: its sample, if it parses, is kept; finally inFlight = false
\* a summary that would be reduced again from the live samples array
returnedSummary_Live(result, samples) ==
    IF result = "none" THEN result ELSE stop(samples)

\* part_001:358: the object stop() returned holds numbers and fresh records,
\* no reference to the samples array: a later push does not reach it
returnedSummary(result, samples) == result

QueryDone ==
    /\ sampler.queries > 0
    /\ \E out \in QueryOutcomes :
          LET sample == IF out.ok /\ out.line # << >>
                        THEN parseGpuSample(out.line) ELSE Null
              pushed == IF sample # Null THEN Append(sampler.samples, sample[1])
                        ELSE sampler.samples
          IN  sampler' = [sampler EXCEPT
                            !.queries = @ - 1,
                            !.inFlight = FALSE,
                            !.samples = pushed,
                            !.result = returnedSummary(@, pushed)]
    /\ UNCHANGED << orchestrator, wait, parsed, probe, stamps >>

\* stop(): the timer is cleared and the samples collected so far are reduced
SamplerStop ==
    /\ sampler.timer = "running"
    /\ sampler' = [sampler EXCEPT !.stopped = TRUE, !.timer = "cleared",
                                  !.collected = Len(sampler.samples),
                                  !.result = stop(sampler.samples)]
    /\ UNCHANGED << orchestrator, wait, parsed, probe, stamps >>

NextSampler ==
    \/ SamplerTick
    \/ QueryDone
    \/ SamplerStop

SpecSampler == InitSampler /\ [][NextSampler]_vars

-----------------------------------------------------------------------------
(* parseBenchOutput on its own, lib.ts *)

MaxLines == 2           \* lines of client output

MetricKeys == {"totalElapsed", "totalTokens", "tokensPerSecond", "p50Ms", "p99Ms"}

\* a table that would look for the P50 line under both latency keys
patterns_P50ForP99(key) ==
    CASE key = "totalElapsed" -> "Total elapsed wall time (s):"
      [] key = "totalTokens" -> "Total generated tokens:"
      [] key = "tokensPerSecond" -> "Tokens per second:"
      [] key = "p50Ms" -> "P50 latency (ms):"
      [] key = "p99Ms" -> "P50 latency (ms):"

\* the literal each pattern starts with
patterns(key) ==
    CASE key = "totalElapsed" -> "Total elapsed wall time (s):"
      [] key = "totalTokens" -> "Total generated tokens:"
      [] key = "tokensPerSecond" -> "Tokens per second:"
      [] key = "p50Ms" -> "P50 latency (ms):"
      [] key = "p99Ms" -> "P99 latency (ms):"

DigitChars == << "0", "1", "2", "3", "4", "5", "6", "7", "8", "9" >>

isDigit(c) == \E d \in 1..Len(DigitChars) : DigitChars[d] = c

digitValue(c) == (CHOOSE d \in 1..Len(DigitChars) : DigitChars[d] = c) - 1

\* a line of output: what it starts with, and the characters that follow the
\* literal and its white space
OutputLabels == { patterns(key) : key \in MetricKeys } \cup { "Requests completed:" }
OutputTails == { << "1", "2" >>, << "1", ".", "5" >>, << "." >>, << "n" >> }
OutputLines == [label : OutputLabels, tail : OutputTails]

\* the capture group: (\d+) for totalTokens, ([0-9.]+) for the others; the
\* longest run of such characters at the start of the tail, << >> for no match
RECURSIVE capture(_, _)
capture(key, tail) ==
    IF tail = << >> THEN << >>
    ELSE IF isDigit(tail[1]) \/ (key # "totalTokens" /\ tail[1] = ".")
    THEN << tail[1] >> \o capture(key, Tail(tail))
    ELSE << >>

\* the value of a run of digits
RECURSIVE digitsValue(_)
digitsValue(ds) ==
    IF ds = << >> THEN 0
    ELSE digitsValue(SubSeq(ds, 1, Len(ds) - 1)) * 10 + digitValue(ds[Len(ds)])

\* Number(text) for a text of digits and dots, in tenths, kept to one decimal
\* place; "NaN" when the text is no number
Number(text) ==
    LET dots == { i \in 1..Len(text) : text[i] = "." }
    IN  IF Cardinality(dots) > 1 \/ Cardinality(dots) = Len(text)
        THEN << "NaN" >>
        ELSE LET d == IF dots = {} THEN Len(text) + 1 ELSE CHOOSE i \in dots : TRUE
                 whole == SubSeq(text, 1, d - 1)
                 tenth == IF d < Len(text) THEN digitValue(text[d + 1]) ELSE 0
             IN  << digitsValue(whole) * 10 + tenth >>

\* text.match(regex): the lines where the pattern of the key occurs
matches(key, text) ==
    { j \in 1..Len(text) :
        text[j].label = patterns(key) /\ capture(key, text[j].tail) # << >> }

\* parseBenchOutput: each key whose pattern occurs gets the number of its
\* first occurrence
parseBenchOutput(text) ==
    LET found == { key \in MetricKeys : matches(key, text) # {} }
    IN  [key \in found |->
            Number(capture(key, text[SetMin(matches(key, text))].tail))]

InitParse ==
    /\ Idle
    /\ wait = NoWait /\ sampler = NoSampler
    /\ probe = NoProbe /\ stamps = NoStamps
    /\ \E text \in SeqsUpTo(OutputLines, MaxLines) :
          parsed = [text |-> text, result |-> "none"]

ParseOutput ==
    /\ parsed.result = "none"
    /\ parsed' = [parsed EXCEPT !.result = Some(parseBenchOutput(parsed.text))]
    /\ UNCHANGED << orchestrator, wait, sampler, probe, stamps >>

NextParse == ParseOutput

SpecParse == InitParse /\ [][NextParse]_vars

-----------------------------------------------------------------------------
(* findFreePort on its own: run_matrix.ts:205-220 *)

MaxBindFailures == 2

\* the port the caller prefers, and the ports the system hands out for port 0
PreferredPorts == {1}
EphemeralPorts == {2, 3, 4}
Ports == PreferredPorts \cup EphemeralPorts

\* server.listen(preferred ?? 0, ...): 0 asks the system for a port
listenPort(preferred) == IF preferred = Null THEN 0 ELSE preferred[1]

\* a probe that would hand the port out while its socket is still listening
closeThenResolve_NoClose(p) ==
    [p EXCEPT !.phase = "returned", !.result = Some(p.bound)]

\* server.close(() => resolve(port)): the promise resolves in the callback
\* of close, that is once the socket has been released
closeThenResolve(p) ==
    [p EXCEPT !.phase = "returned", !.open = FALSE, !.result = Some(p.bound)]

\* findFreePort(DEFAULT_HYPERVISOR_PORT)
InitPort ==
    /\ Idle
    /\ wait = NoWait /\ sampler = NoSampler /\ parsed = NoParse
    /\ stamps = NoStamps
    /\ \E p \in PreferredPorts :
          probe = [NoProbe EXCEPT !.phase = "listen", !.preferred = Some(p),
                                  !.listenOn = listenPort(Some(p))]

\* server.listen: the bind succeeds on a port that is free at this moment
\* ('listening'), or fails ('error'); busy is the set of ports in use now
ProbeListen ==
    /\ probe.phase = "listen"
    /\ \E busy \in SUBSET Ports :
          LET first == probe.failures = 0
              free  == IF probe.listenOn = 0 THEN EphemeralPorts \ busy
                       ELSE {probe.listenOn} \ busy
              seen  == [probe EXCEPT !.busy = busy,
                                     !.firstFree = IF first THEN free # {} ELSE @]
          IN  \/ \E port \in free :
                    probe' = [seen EXCEPT !.phase = "listening", !.open = TRUE,
                                          !.bound = port]
              \/ /\ probe.listenOn # 0 => free = {}
                 /\ probe.failures < MaxBindFailures
                 /\ probe' = [seen EXCEPT !.phase = "error",
                                          !.failures = @ + 1]
    /\ UNCHANGED << orchestrator, wait, sampler, parsed, stamps >>

\* server.on('error'): close, then resolve(findFreePort()) without a preference
ProbeRetry ==
    /\ probe.phase = "error"
    /\ probe' = [probe EXCEPT !.phase = "listen", !.open = FALSE,
                              !.listenOn = listenPort(Null)]
    /\ UNCHANGED << orchestrator, wait, sampler, parsed, stamps >>

\* the callback of listen: address().port, then close and resolve
ProbeClose ==
    /\ probe.phase = "listening"
    /\ probe' = closeThenResolve(probe)
    /\ UNCHANGED << orchestrator, wait, sampler, parsed, stamps >>

NextPort == ProbeListen \/ ProbeRetry \/ ProbeClose

SpecPort == InitPort /\ [][NextPort]_vars

-----------------------------------------------------------------------------
(* The scratch path of a run at two instants: run_matrix.ts:226-240 *)

\* instants in milliseconds, and the offset of local time in seconds
Instants == {0, 1, 999, 1000, 1999, 3600000}
ZoneOffsets == {0, 3600}

\* lib nowStamp: year-month-day, hours, minutes and seconds of local time
nowStamp(ms, zone) ==
    LET s == (ms \div 1000) + zone
    IN  << s \div 86400, (s \div 3600) % 24, (s \div 60) % 60, s % 60 >>

\* run_matrix.ts:237-240: /tmp/tensor-fusion-<stamp>-<runId>, limiter runs only
shmBasePath(spec, stamp) ==
    IF spec.limiterTarget # Null
    THEN Some(<< "/tmp", "tensor-fusion", stamp, runId(spec) >>)
    ELSE Null

\* one limiter run id, and two different instants at which runOne reaches
\* line 237 for it
InitStamp ==
    /\ Idle
    /\ wait = NoWait /\ sampler = NoSampler /\ parsed = NoParse
    /\ probe = NoProbe
    /\ \E m \in ModeValues, u \in UtilValues, t1, t2 \in Instants,
          z1, z2 \in ZoneOffsets :
          /\ t1 < t2
          /\ stamps = [spec |-> Some([mode |-> m, limiterTarget |-> Some(u)]),
                       first |-> Some([ms |-> t1, zone |-> z1]),
                       second |-> Some([ms |-> t2, zone |-> z2]),
                       paths |-> << >>]

MakePaths ==
    /\ stamps.spec # Null
    /\ stamps.paths = << >>
    /\ LET spec == stamps.spec[1]
           a == stamps.first[1]
           b == stamps.second[1]
       IN  stamps' = [stamps EXCEPT !.paths =
                        << shmBasePath(spec, nowStamp(a.ms, a.zone)),
                           shmBasePath(spec, nowStamp(b.ms, b.zone)) >>]
    /\ UNCHANGED << orchestrator, wait, sampler, parsed, probe >>

NextStamp == MakePaths

SpecStamp == InitStamp /\ [][NextStamp]_vars

-----------------------------------------------------------------------------
(* Properties *)

Signals == {"SIGINT", "SIGTERM"}

\* the errors that leave runOne
Errors == {"CudaVisible", "NotFound", "Timeout", "ReadLog"}
Interrupted == cleanedUp.cause \in Signals

\* runs that have ended: by return, or by the error that left runOne
RunEnded(r) ==
    \/ r < runIndex
    \/ r = runIndex /\ pc \in {"next", "done"}
    \/ r = runIndex /\ cleanedUp.cause \in Errors

\* C1: after the matrix has run to completion, summaryRows holds exactly one
\* row for the key (mode, limiterTarget) of every enumerated RunSpec: none is
\* missing and no key appears twice.
C1_ExactlyOneRowPerKey ==
    pc = "done" =>
        \A i \in 1..Len(Matrix) :
            Cardinality({ j \in 1..Len(summaryRows) :
                            Key(summaryRows[j]) = Key(Matrix[i]) }) = 1

\* C2: once an invocation of runOne has ended (return or thrown error), no
\* process group spawned by that run is alive.
C2_NoGroupAliveAfterRun ==
    \A h \in Spawned : RunEnded(RunOf(h)) => ~children[h].alive

\* C3: when control is back in the matrix driver, the teardown of runOne has
\* sent termination to every process group of the run and has removed the
\* run's scratch path, also when the run failed before the readiness guard.
C3_TeardownOnEveryExitPath ==
    (runIndex >= 1 /\ RunEnded(runIndex)) =>
        /\ \A h \in RunHandles(runIndex) :
              children[h].alive => children[h].termBy = "runOne"
        /\ runIndex \notin shmPaths

\* C4: no process group of one run is alive when a later run has spawned its
\* limiter or serving processes.
C4_NoOverlapBetweenRuns ==
    \A p, q \in Spawned : RunOf(p) < RunOf(q) => ~children[p].alive

\* C5: in a run with a limiter target a serving process is spawned only in
\* the step in which the wait on the supervisor's health endpoint returns with
\* an HTTP response, and only when the supervisor of that run has been spawned;
\* a wait that does not succeed spawns no serving process.
C5_ServersAfterLimiterReady ==
    [][\A h \in (DOMAIN children') \ (DOMAIN children) :
          (KindOf(h) # "hypervisor" /\ Matrix[RunOf(h)].limiterTarget # Null) =>
              /\ RunOf(h) = runIndex
              /\ pc = "awaitLimiter"
              /\ Handle(runIndex, "hypervisor") \in Spawned
              /\ healthStatus' > 0]_vars

\* a limiter run whose serving process runs after the health endpoint answered
C5_Witness ==
    /\ pc = "awaitServers"
    /\ CurSpec.limiterTarget # Null
    /\ healthStatus = 404
    /\ Alive(Handle(runIndex, "hypervisor"))
    /\ Alive(Handle(runIndex, "vllmA"))

\* C6: whenever the client has been invoked in the current run, the readiness
\* wait has returned on a 2xx status for every base URL of the run (one in
\* single mode, two in double mode); a run whose wait failed never invoked it.
C6_ClientAfterAllReady ==
    /\ benchInvoked =>
          /\ Len(readyStatus) = Len(baseUrls(CurSpec.mode))
          /\ \A i \in 1..Len(readyStatus) :
                readyStatus[i] >= 200 /\ readyStatus[i] < 300
    /\ benchError = "timeout" => ~benchInvoked

\* the client runs in a double-mode run, both endpoints having answered
C6_Witness ==
    /\ pc = "bench"
    /\ CurSpec.mode = "double"
    /\ benchInvoked
    /\ Len(readyStatus) = 2

\* C7: after SIGINT or SIGTERM every process group that was in the live-handle
\* set and is alive has been sent SIGTERM by cleanup(), the orchestrator has
\* exited with 130 (SIGINT) or 143 (SIGTERM), and from then on no run is
\* started and nothing is spawned.
C7_InterruptStopsTrackedAndExits ==
    /\ [](Interrupted =>
            /\ exitCode = Exited(IF cleanedUp.cause = "SIGINT" THEN 130 ELSE 143)
            /\ activeChildren = {}
            /\ \A h \in cleanedUp.handles :
                  Alive(h) => children[h].termSent /\ children[h].termBy = "cleanup")
    /\ [][Interrupted =>
            /\ runIndex' = runIndex
            /\ summaryRows' = summaryRows
            /\ (DOMAIN children') \subseteq (DOMAIN children)]_vars

\* SIGTERM arrived while both serving processes of a double-mode run were up
C7_Witness ==
    /\ cleanedUp.cause = "SIGTERM"
    /\ exitCode = Exited(EXIT_SIGTERM)
    /\ Cardinality({ h \in cleanedUp.handles :
                       Alive(h) /\ children[h].termBy = "cleanup" }) >= 2

\* C8: after an interrupt-driven exit no process group of the matrix is left
\* alive: a group that does not exit on SIGTERM is gone at the latest when the
\* forceful kill is due.
C8_NoOrphansAfterInterrupt ==
    Interrupted =>
        \A h \in Spawned : children[h].alive => children[h].age < FirstKillPollMs

\* C9: SIGKILL is sent to a group if and only if it has not exited within the
\* grace period: never before timeoutMs have passed since its SIGTERM, and
\* always when the group is still alive at the first poll after them.
C9_KillIffAliveAfterGrace ==
    \A h \in Spawned :
        /\ children[h].killSent => children[h].age > timeoutMs
        /\ (children[h].termSent /\ children[h].age >= FirstKillPollMs) =>
              (children[h].killSent \/ ~children[h].alive)

\* C10: a missing limiter binary or library fails only its run: nothing was
\* spawned for the run, the run has its row, and the orchestrator goes on with
\* the rest of the matrix.
C10_MissingArtifactFailsOnlyThatRun ==
    cleanedUp.cause = "NotFound" =>
        /\ RunHandles(runIndex) = {}
        /\ Len(summaryRows) = runIndex
        /\ exitCode # Exited(EXIT_FAILED)

\* C11: a limiter health wait that times out is caught inside the run: the
\* orchestrator does not exit on it, and the run has its row, which carries
\* the timeout as its benchError.
C11_LimiterTimeoutRecorded ==
    cleanedUp.cause = "Timeout" =>
        /\ exitCode = Running
        /\ Len(summaryRows) >= runIndex
        /\ summaryRows[runIndex].benchError = "timeout"

\* C12: when a readiness wait on a serving endpoint times out, the sampler
\* was never started and the client never invoked, the timeout is the run's
\* benchError, benchResult keeps exit code 1 and empty metrics, no telemetry
\* exists, the teardown has signalled every group of the run, and the run
\* goes on to its row, which carries the same values; a run that skipped its
\* benchmark always has the timeout recorded.
C12_ServerTimeoutSkipsBench ==
    /\ benchError = "timeout" =>
          /\ exitCode = Running
          /\ pc \in {"cooldown", "finish", "next", "done"}
          /\ ~benchInvoked
          /\ gpuSampler = "none" /\ gpuStats = Null
          /\ benchResult = [exitCode |-> 1, metrics |-> "empty"]
          /\ RunHandles(runIndex) \cap activeChildren = {}
          /\ \A h \in RunHandles(runIndex) : children[h].alive => children[h].termSent
    /\ (pc \in {"cooldown", "finish"} /\ ~benchInvoked) => benchError = "timeout"
    /\ \A j \in 1..Len(summaryRows) :
          summaryRows[j].benchError = "timeout" =>
              /\ summaryRows[j].benchExitCode = 1
              /\ summaryRows[j].metrics = "empty"
              /\ summaryRows[j].gpuSamples = Null
    /\ (pc \in {"next", "done"} /\ runIndex >= 1 /\ ~benchInvoked) =>
          summaryRows[runIndex].benchError = "timeout"

\* the first run timed out waiting for its servers and the second run started
C12_Witness ==
    /\ runIndex = 2
    /\ pc = "awaitServers"
    /\ Len(summaryRows) = 1
    /\ summaryRows[1].benchError = "timeout"
    /\ summaryRows[1].benchExitCode = 1

\* C13: a run with a limiter target that finds the token file missing or
\* empty launches neither the supervisor nor a serving process.
C13_NoTokenShortCircuits ==
    (runIndex >= 1 /\ CurSpec.limiterTarget # Null /\ ~tokenFile) =>
        RunHandles(runIndex) = {}

\* C14: a failed benchmark (client exit code not 0, or no metrics parsed) is
\* only recorded: an orchestrator that ended without cleanup() ended with
\* status 0, after every RunSpec got its row and the aggregate reports were
\* written, whatever the rows say.
C14_BenchFailureNotFatal ==
    (exitCode # Running /\ cleanedUp.cause = "none") =>
        /\ exitCode = Exited(0)
        /\ Len(summaryRows) = Len(Matrix)
        /\ Len(summaryFiles) = 1
        /\ summaryFiles[1].json = summaryRows

\* a matrix of two runs, both clients exited with 1, ended with status 0
C14_Witness ==
    /\ exitCode = Exited(EXIT_OK)
    /\ Len(summaryRows) = 2
    /\ \A j \in 1..2 : /\ summaryRows[j].benchExitCode = 1
                        /\ summaryRows[j].benchError = "none"
                        /\ summaryRows[j].metrics = "empty"
    /\ Len(summaryFiles) = 1

\* C15: after an error has left runOne, every process group that was in the
\* live-handle set and is alive has been sent SIGTERM by cleanup() and the
\* orchestrator has exited with status 1, and with 1 only then; it exits with
\* status 0 only after every RunSpec of the matrix has returned its row.
C15_FailureCleansUpAndExitsOne ==
    /\ cleanedUp.cause \in Errors =>
          /\ exitCode = Exited(1)
          /\ activeChildren = {}
          /\ \A h \in cleanedUp.handles :
                Alive(h) => children[h].termSent /\ children[h].termBy = "cleanup"
    /\ exitCode = Exited(1) => cleanedUp.cause \in Errors
    /\ exitCode = Exited(0) =>
          /\ cleanedUp.cause = "none"
          /\ runIndex = Len(Matrix)
          /\ Len(summaryRows) = Len(Matrix)

\* the health wait of the second run timed out with its supervisor running
C15_Witness ==
    /\ cleanedUp.cause = "Timeout"
    /\ runIndex = 2
    /\ exitCode = Exited(EXIT_FAILED)
    /\ cleanedUp.handles = {Handle(2, "hypervisor")}
    /\ Alive(Handle(2, "hypervisor"))
    /\ children[Handle(2, "hypervisor")].termBy = "cleanup"

\* C16: at an interrupt-driven exit the result sequence, run_summary.log and
\* the per-run summary.json files agree: each holds the entry of every run
\* that completed, in the directory and under the runId of that run, and the
\* directory of the unfinished run holds no summary.json.
C16_InterruptLeavesFilesConsistent ==
    Interrupted =>
        /\ Len(runSummaryLog) = Len(summaryRows)
        /\ \A j \in 1..Len(summaryRows) :
              /\ runSummaryLog[j].runId = runId(Matrix[j])
              /\ runDir(Matrix[j]) \in DOMAIN runSummaryJson
              /\ runSummaryJson[runDir(Matrix[j])].bench.exitCode
                    = summaryRows[j].benchExitCode
              /\ runSummaryJson[runDir(Matrix[j])].benchError
                    = summaryRows[j].benchError
        /\ Len(summaryRows) < runIndex =>
              runDir(Matrix[runIndex]) \notin DOMAIN runSummaryJson

\* C17: the runs are executed one after the other in the order of the
\* matrix: unless skipped, one baseline per mode first, then one run per
\* (limiter target, mode); the j-th row is that of the j-th RunSpec, a run
\* starts only after the rows of all earlier runs exist, and an orchestrator
\* that ended without being aborted has a row for every RunSpec.  For modes =
\* [single], utils = [0.5] and baselines not skipped these are exactly two
\* rows, baseline then throttled, in two different run directories.
C17_MatrixOrder ==
    /\ Len(Matrix) = totalRuns
    /\ \A j \in 1..Len(Matrix) :
          /\ (Matrix[j].limiterTarget = Null) <=> (~skipBaseline /\ j <= Len(modes))
          /\ Matrix[j].limiterTarget = Null => Matrix[j].mode = modes[j]
    /\ Len(summaryRows) <= runIndex
    /\ exitCode = Running => Len(summaryRows) >= runIndex - 1
    /\ \A j \in 1..Len(summaryRows) : Key(summaryRows[j]) = Key(Matrix[j])
    /\ (exitCode # Running /\ cleanedUp.cause = "none") =>
          Len(summaryRows) = Len(Matrix)
    /\ (modes = << "single" >> /\ utils = << 5 >> /\ ~skipBaseline
            /\ exitCode # Running /\ cleanedUp.cause = "none") =>
          /\ Len(summaryRows) = 2
          /\ summaryRows[1].limiterTarget = Null
          /\ summaryRows[2].limiterTarget = Some(5)
          /\ runDir(Matrix[1]) # runDir(Matrix[2])

\* modes = [single], utils = [0.5]: the baseline and the throttled run are done
C17_Witness ==
    /\ modes = << "single" >> /\ utils = << 5 >> /\ ~skipBaseline
    /\ exitCode = Exited(EXIT_OK)
    /\ Len(summaryRows) = 2
    /\ summaryRows[1].limiterTarget = Null
    /\ summaryRows[2].limiterTarget = Some(5)

\* C18: run_summary.log has exactly one line per completed run, in execution
\* order, at every moment: the line of a run is there when the run returns,
\* before the next run starts, and carries the run's id, exit code and error.
C18_RunLogPerCompletedRun ==
    /\ Len(runSummaryLog) = Len(summaryRows)
    /\ exitCode = Running =>
          Len(runSummaryLog) = (IF pc \in {"next", "done"} THEN runIndex ELSE runIndex - 1)
    /\ \A j \in 1..Len(runSummaryLog) :
          /\ runSummaryLog[j].runId = runId(Matrix[j])
          /\ runSummaryLog[j].exit = summaryRows[j].benchExitCode
          /\ runSummaryLog[j].error = summaryRows[j].benchError

\* between the two runs of a matrix: one line, that of the first run
C18_Witness ==
    /\ pc = "next"
    /\ runIndex = 1
    /\ Len(Matrix) = 2
    /\ Len(runSummaryLog) = 1
    /\ runSummaryLog[1].runId = runId(Matrix[1])

\* C19: summary.csv and summary.json are written at most once, and only when
\* every run of the matrix has returned; they are written when main() is
\* through its loops, summary.json holding the rows and summary.csv the
\* header and one line per row, in execution order; an orchestrator that was
\* aborted by an error or interrupted before the last run returned has
\* written neither.
C19_ReportsWrittenOnceAtEnd ==
    /\ Len(summaryFiles) <= 1
    /\ exitCode = Running => (Len(summaryFiles) = 1 <=> pc = "done")
    /\ Len(summaryFiles) = 1 =>
          /\ runIndex = Len(Matrix)
          /\ Len(summaryRows) = Len(Matrix)
          /\ summaryFiles[1].json = summaryRows
          /\ Len(summaryFiles[1].csv) = Len(summaryRows) + 1
          /\ \A j \in 1..Len(summaryRows) :
                /\ summaryFiles[1].csv[j + 1][1] = Matrix[j].mode
                /\ summaryFiles[1].csv[j + 1][2] =
                      (IF Matrix[j].limiterTarget = Null THEN "" ELSE "5")
                /\ summaryFiles[1].csv[j + 1][4] =
                      (IF summaryRows[j].benchExitCode = 0 THEN "0" ELSE "1")
    /\ cleanedUp.cause \in Errors => summaryFiles = << >>
    /\ (Interrupted /\ Len(summaryRows) < Len(Matrix)) => summaryFiles = << >>

\* both runs of a matrix have returned and the reports are written
C19_Witness ==
    /\ pc = "done"
    /\ Len(summaryRows) = 2
    /\ Len(summaryFiles) = 1
    /\ Len(summaryFiles[1].csv) = 3

\* C20: when waitForHttpOk returns on a URL whose first N polls fail, it has
\* made N + 1 requests and at least N * intervalMs have passed since the
\* call; it throws only when the deadline passed before the URL answered 200,
\* so it returns whenever the N failing polls and their sleeps end in time.
C20_WaitNotBeforeNIntervals ==
    /\ wait.phase = "returned" =>
          /\ wait.polls = wait.failsFirst + 1
          /\ wait.elapsed >= wait.failsFirst * wait.intervalMs
    /\ wait.phase = "thrown" =>
          /\ wait.polls <= wait.failsFirst
          /\ wait.elapsed >= wait.timeoutMs
    /\ wait.polls <= wait.failsFirst + 1

\* three failing polls at intervalMs = 2, then 200
C20_Witness ==
    /\ wait.phase = "returned"
    /\ wait.failsFirst = 3
    /\ wait.intervalMs = 2
    /\ wait.polls = 4
    /\ wait.elapsed = 6

\* C21 (as amended): on a URL that never answers 2xx, waitForHttpOk never
\* returns; it throws at the first loop test at or after timeoutMs: not before
\* timeoutMs has passed, and the test before it, if any, was still before the
\* deadline, so it is late by less than one request and one sleep.  The error
\* carries the failure of the last poll, or "timeout" when no poll was made.
C21_NeverOkThrowsAfterTimeout ==
    /\ wait.phase # "returned"
    /\ wait.phase = "thrown" =>
          /\ wait.elapsed >= wait.timeoutMs
          /\ wait.polls > 0 =>
                /\ wait.tested < wait.timeoutMs
                /\ wait.error = (IF wait.lastStatus = 0 THEN << "error" >>
                                  ELSE << "HTTP", wait.lastStatus >>)
          /\ wait.polls = 0 => wait.error = << "timeout" >>
    /\ wait.phase # "thrown" => wait.error = Null

\* a network failure, then a 404, and the deadline has passed
C21_Witness ==
    /\ wait.phase = "thrown"
    /\ wait.url = "never"
    /\ wait.polls = 2
    /\ wait.lastStatus = 404
    /\ wait.lastError = << "HTTP", 404 >>
    /\ wait.elapsed > wait.timeoutMs

\* C21 (as stated): on a URL that never answers 2xx, waitForHttpOk never
\* returns, and it throws exactly when timeoutMs has elapsed, with the last
\* observed failure as the reason.
C21_FailsExactlyAtTimeout ==
    /\ wait.phase # "returned"
    /\ wait.phase = "thrown" =>
          /\ wait.elapsed = wait.timeoutMs
          /\ wait.polls > 0 =>
                wait.error = (IF wait.lastStatus = 0 THEN << "error" >>
                              ELSE << "HTTP", wait.lastStatus >>)

\* C22: waitForHttpReady returns on the first poll that gets an HTTP response,
\* whatever its status (200, 404, 500); it sleeps and polls again only after a
\* poll that ended in a network failure, and it throws only when timeoutMs has
\* passed with every poll having failed that way.
C22_ReadyOnAnyResponse ==
    /\ wait.phase = "returned" => wait.polls >= 1 /\ wait.lastStatus > 0
    /\ (wait.phase # "returned" /\ wait.polls > 0) => wait.lastStatus = 0
    /\ wait.phase = "sleep" => wait.polls > 0
    /\ wait.phase = "thrown" =>
          /\ wait.elapsed >= wait.timeoutMs
          /\ wait.polls > 0 => wait.error = << "error" >>

\* two network failures, then a 500: the wait returned on it
C22_Witness ==
    /\ wait.fn = "waitForHttpReady"
    /\ wait.phase = "returned"
    /\ wait.polls = 3
    /\ wait.lastStatus = 500
    /\ wait.lastError = << "error" >>

\* C23: at most one query of the sampler is in flight at any time, and
\* inFlight says whether one is: a tick that fires while a query is in flight
\* starts none, whatever the order of ticks and query ends and however the
\* queries end.
C23_NoOverlappingQueries ==
    /\ sampler.queries <= 1
    /\ sampler.inFlight <=> sampler.queries = 1
    /\ sampler.skipped > 0 => sampler.ticks >= 2

\* a tick fired while a query was in flight, after an earlier query had ended
C23_Witness ==
    /\ sampler.queries = 1
    /\ sampler.inFlight
    /\ sampler.skipped = 1
    /\ sampler.ticks = 3

\* C24: stop() returns null exactly when no sample was collected; otherwise
\* its summary counts the collected samples and gives, for each of the six
\* metrics, the sum of the metric over the samples divided by their number as
\* avg and the greatest value of the metric as max.  Only lines of six finite
\* fields become samples.
C24_StopReducesSamples ==
    LET taken == SubSeq(sampler.samples, 1, sampler.collected)
        Sum(i) == LET S[j \in 0..Len(taken)] ==
                          IF j = 0 THEN 0 ELSE S[j - 1] + taken[j][i]
                  IN  S[Len(taken)]
    IN  sampler.result # "none" =>
            /\ sampler.result = Null <=> sampler.collected = 0
            /\ sampler.result # Null =>
                  LET summary == sampler.result[1]
                  IN  /\ summary.samples = sampler.collected
                      /\ \A i \in 1..6 :
                            /\ summary.avg[i].count = sampler.collected
                            /\ summary.avg[i].sum = Sum(i)
                            /\ \E j \in 1..Len(taken) : summary.max[i] = taken[j][i]
                            /\ \A j \in 1..Len(taken) : summary.max[i] >= taken[j][i]

\* two different samples were collected and reduced
C24_Witness ==
    /\ sampler.result # "none"
    /\ sampler.result # Null
    /\ sampler.collected = 2
    /\ sampler.samples[1] # sampler.samples[2]
    /\ sampler.result[1].max[1] = 6
    /\ sampler.result[1].avg[1] = [sum |-> 7, count |-> 2]

\* C25: the result of parseBenchOutput has a metric exactly when a line of
\* the output starts with the metric's literal followed by a number (digits
\* only for totalTokens, digits and dots for the others), and nothing else:
\* output with only the "Tokens per second" and "P99 latency (ms)" lines
\* gives exactly tokensPerSecond and p99Ms, and output without a recognized
\* line gives the empty result.
C25_MetricSetIffPatternOccurs ==
    LET text == parsed.text
        Starts(j, literal) == text[j].label = literal
        Digit(j) == text[j].tail[1] \in {"0", "1", "2", "3", "4", "5", "6", "7", "8", "9"}
        DigitOrDot(j) == Digit(j) \/ text[j].tail[1] = "."
    IN  parsed.result # "none" =>
          LET result == parsed.result[1]
          IN  /\ DOMAIN result \subseteq MetricKeys
              /\ "totalElapsed" \in DOMAIN result <=>
                    \E j \in 1..Len(text) :
                        Starts(j, "Total elapsed wall time (s):") /\ DigitOrDot(j)
              /\ "totalTokens" \in DOMAIN result <=>
                    \E j \in 1..Len(text) :
                        Starts(j, "Total generated tokens:") /\ Digit(j)
              /\ "tokensPerSecond" \in DOMAIN result <=>
                    \E j \in 1..Len(text) :
                        Starts(j, "Tokens per second:") /\ DigitOrDot(j)
              /\ "p50Ms" \in DOMAIN result <=>
                    \E j \in 1..Len(text) :
                        Starts(j, "P50 latency (ms):") /\ DigitOrDot(j)
              /\ "p99Ms" \in DOMAIN result <=>
                    \E j \in 1..Len(text) :
                        Starts(j, "P99 latency (ms):") /\ DigitOrDot(j)
              /\ (\A j \in 1..Len(text) : Starts(j, "Requests completed:"))
                    => DOMAIN result = {}
              /\ text = << [label |-> "Tokens per second:", tail |-> << "1", "2" >>],
                           [label |-> "P99 latency (ms):", tail |-> << "1", ".", "5" >>] >>
                    => /\ DOMAIN result = {"tokensPerSecond", "p99Ms"}
                       /\ result["tokensPerSecond"] = << 120 >>
                       /\ result["p99Ms"] = << 15 >>

\* the output with only the Tokens per second and P99 latency lines, parsed
C25_Witness ==
    /\ parsed.result # "none"
    /\ parsed.text = << [label |-> "Tokens per second:", tail |-> << "1", "2" >>],
                        [label |-> "P99 latency (ms):", tail |-> << "1", ".", "5" >>] >>
    /\ DOMAIN parsed.result[1] = {"tokensPerSecond", "p99Ms"}

\* C26: in a throttled run of a mode whose hint has been captured, every
\* serving process of the run, the one of single mode and both of double
\* mode, was started with that hint as its --kv-cache-memory-bytes.
C26_HintPassedToEveryServer ==
    \A h \in Spawned :
        LET spec == Matrix[RunOf(h)]
        IN  (/\ KindOf(h) \in {"vllmA", "vllmB"}
             /\ spec.limiterTarget # Null
             /\ kvCacheBytesByMode[spec.mode] # Null)
            => children[h].kv = kvCacheBytesByMode[spec.mode]

\* C27: the hint of a mode is written only in the teardown of a baseline run
\* of that mode, and a hint that has been captured keeps its value for the
\* rest of the matrix.
C27_HintImmutableOnceCaptured ==
    [][\A m \in ModeValues :
          /\ kvCacheBytesByMode'[m] # kvCacheBytesByMode[m] =>
                /\ runIndex >= 1
                /\ CurSpec.limiterTarget = Null
                /\ CurSpec.mode = m
                /\ pc \in {"awaitServers", "bench"}
          /\ kvCacheBytesByMode[m] # Null =>
                kvCacheBytesByMode'[m] = kvCacheBytesByMode[m]]_vars

\* C28: no step of the teardown block raises: an error that leaves runOne
\* was raised before the block was entered, so a run whose teardown has
\* begun always gets its row.
C28_TeardownNeverRaises ==
    cleanedUp.cause \in Errors =>
        /\ cleanedUp.cause \in {"CudaVisible", "NotFound", "Timeout"}
        /\ \A h \in RunHandles(runIndex) : children[h].termBy # "runOne"

\* C29: terminate on a handle without a pid, or on a group that has exited,
\* sends nothing and arms no escalation: an escalation is pending or has
\* fired only for a group that got the SIGTERM.  The teardown goes on with
\* the other handles: after it no handle of the run is in the live-handle
\* set and every group of the run that is alive has been sent SIGTERM.
C29_GoneGroupIsNoError ==
    /\ \A h \in Spawned :
          /\ ~children[h].pid =>
                /\ ~children[h].termSent
                /\ ~children[h].killSent
                /\ children[h].esc = "none"
          /\ children[h].esc # "none" => children[h].termSent
          /\ children[h].killSent => children[h].termSent
    /\ (exitCode = Running /\ pc \in {"cooldown", "finish"}) =>
          /\ RunHandles(runIndex) \cap activeChildren = {}
          /\ \A h \in RunHandles(runIndex) :
                children[h].alive => children[h].termSent

\* the teardown of a double-mode run found one server gone and stopped the other
C29_Witness ==
    /\ exitCode = Running
    /\ pc \in {"cooldown", "finish"}
    /\ CurSpec.mode = "double"
    /\ Handle(runIndex, "vllmA") \in Spawned
    /\ ~children[Handle(runIndex, "vllmA")].alive
    /\ ~children[Handle(runIndex, "vllmA")].termSent
    /\ children[Handle(runIndex, "vllmA")].esc = "none"
    /\ children[Handle(runIndex, "vllmB")].termSent
    /\ children[Handle(runIndex, "vllmB")].esc = "pending"

\* C30: the live-handle set holds only handles of the run in flight; while
\* the run waits for its limiter, waits for its servers or runs the client,
\* every handle the run has spawned is in the set; the set is empty once the
\* teardown has stopped the run's handles and whenever runOne has returned.
C30_LiveSetTracksCurrentRun ==
    /\ \A h \in activeChildren : h \in Spawned /\ RunOf(h) = runIndex
    /\ (exitCode = Running /\ pc \in {"awaitLimiter", "awaitServers", "bench"}) =>
          /\ RunHandles(runIndex) \subseteq activeChildren
          /\ \A h \in RunHandles(runIndex) : ~children[h].termSent
    /\ pc = "awaitLimiter" => RunHandles(runIndex) = {Handle(runIndex, "hypervisor")}
    /\ (pc \in {"awaitServers", "bench"} /\ CurSpec.limiterTarget # Null) =>
          Handle(runIndex, "hypervisor") \in activeChildren
    /\ pc \in {"awaitServers", "bench"} =>
          ServerHandles(runIndex, CurSpec.mode) \subseteq activeChildren
    /\ pc \in {"cooldown", "finish", "next", "done"} => activeChildren = {}

\* the client of a throttled double-mode run runs: three handles are tracked
C30_Witness ==
    /\ pc = "bench"
    /\ CurSpec.mode = "double"
    /\ CurSpec.limiterTarget # Null
    /\ activeChildren = { Handle(runIndex, "hypervisor"), Handle(runIndex, "vllmA"),
                           Handle(runIndex, "vllmB") }

\* C31: findFreePort returns the preferred port when it was free at the probe,
\* otherwise a port the system assigned that was free at its probe; a failed
\* bind is followed by another probe, and the probing socket is closed by the
\* time the port is returned
C31_PortFreeAtProbeAndReleased ==
    /\ probe.phase = "returned" =>
          /\ ~probe.open
          /\ probe.result # Null
          /\ probe.result[1] \notin probe.busy
          /\ probe.firstFree => probe.result = probe.preferred /\ probe.failures = 0
          /\ ~probe.firstFree =>
                probe.result[1] \in EphemeralPorts /\ probe.failures > 0
    /\ probe.phase = "error" => ~probe.open /\ probe.result = Null

\* the preferred port was taken, one more bind failed, and the third probe
\* returned a port of the system
C31_Witness ==
    /\ probe.phase = "returned"
    /\ probe.failures = MaxBindFailures
    /\ probe.result \in { Some(p) : p \in EphemeralPorts }

\* C32: two scratch paths made for one run id at two different instants are
\* never equal
C32_PathsOfOneRunIdDiffer ==
    stamps.paths # << >> => stamps.paths[1] # stamps.paths[2]

\* C33: the teardown of a run stops the sampler first, then terminates the
\* serving process groups, then the limiter supervisor, then removes the
\* scratch path, and only then sleeps a positive cooldown; the run's row is
\* appended after all of it
C33_TeardownOrder ==
    LET rank(step) ==
            IF step = << "gpuSampler.stop" >> THEN 1
            ELSE IF step \in {<< "stopChild", "vllmA" >>, << "stopChild", "vllmB" >>} THEN 2
            ELSE IF step = << "stopChild", "hypervisor" >> THEN 3
            ELSE IF step = << "cleanupShmPath" >> THEN 4
            ELSE IF step = << "sleep" >> THEN 5
            ELSE 0
        named == { i \in 1..Len(teardownLog) : rank(teardownLog[i]) > 0 }
        has(step) == HasStep(teardownLog, step)
        complete ==
            /\ has(<< "stopChild", "vllmA" >>)
            /\ CurSpec.mode = "double" => has(<< "stopChild", "vllmB" >>)
            /\ CurSpec.limiterTarget # Null =>
                  /\ has(<< "stopChild", "hypervisor" >>)
                  /\ has(<< "cleanupShmPath" >>)
                  /\ runIndex \notin shmPaths
            /\ has(<< "gpuSampler.stop" >>) <=> gpuSampler = "stopped"
            /\ gpuSampler # "running"
            /\ has(<< "sleep" >>) <=> cooldownMs > 0
            /\ RunHandles(runIndex) \cap activeChildren = {}
            /\ \A h \in RunHandles(runIndex) : children[h].alive => children[h].termSent
    IN  /\ \A i, j \in named :
              i < j => \/ rank(teardownLog[i]) < rank(teardownLog[j])
                       \/ rank(teardownLog[i]) = 2 /\ rank(teardownLog[j]) = 2
        /\ (exitCode = Running /\ pc \in {"cooldown", "finish"}) =>
              /\ complete
              /\ Len(summaryRows) = runIndex - 1
        /\ pc = "cooldown" => teardownLog[Len(teardownLog)] = << "sleep" >>
        /\ (exitCode = Running /\ runIndex >= 1 /\ Len(summaryRows) = runIndex) =>
              /\ pc \in {"next", "done"}
              /\ complete
              /\ sleepLeft = 0

\* the row of a limiter run in double mode is appended after the sampler stop,
\* the three terminations, the scratch-path removal and the cooldown sleep
C33_Witness ==
    /\ exitCode = Running
    /\ pc = "next"
    /\ Len(summaryRows) = runIndex
    /\ teardownLog = << << "gpuSampler.stop" >>, << "stopChild", "vllmA" >>,
                        << "stopChild", "vllmB" >>, << "stopChild", "hypervisor" >>,
                        << "cleanupShmPath" >>, << "sleep" >> >>

\* C34: a baseline run never spawns the limiter supervisor, never probes for a
\* port, never creates or removes a scratch path, never checks the limiter
\* artifacts, and passes no cache-size hint to its serving processes
C34_BaselineTouchesNoLimiterState ==
    (runIndex >= 1 /\ CurSpec.limiterTarget = Null) =>
        /\ pc \notin {"findPort", "awaitLimiter"}
        /\ Handle(runIndex, "hypervisor") \notin Spawned
        /\ healthStatus = 0
        /\ runIndex \notin shmPaths
        /\ ~HasStep(teardownLog, << "cleanupShmPath" >>)
        /\ ~HasStep(teardownLog, << "stopChild", "hypervisor" >>)
        /\ cleanedUp.cause \notin {"NotFound", "Timeout"}
        /\ \A h \in RunHandles(runIndex) : children[h].kv = Null

\* the second baseline run of a mode whose hint the first one captured: its
\* server runs without the hint, and the client is running
C34_Witness ==
    /\ exitCode = Running
    /\ runIndex = 2
    /\ CurSpec.limiterTarget = Null
    /\ kvCacheBytesByMode[CurSpec.mode] # Null
    /\ pc = "bench"
    /\ children[Handle(runIndex, "vllmA")].pid
    /\ children[Handle(runIndex, "vllmA")].kv = Null

\* C35: when the last readiness probe of a run succeeds and the client is
\* invoked, the endpoint is served by a process of this run: no serving
\* process of an earlier run is alive on that port
C35_ProbeAnsweredByOwnServer ==
    [][(exitCode = Running /\ pc = "awaitServers" /\ pc' = "bench") =>
          LET urls == waitForPorts(baseUrls(CurSpec.mode))
              kind == urls[Len(urls)]
          IN  /\ Alive(Handle(runIndex, kind))
              /\ \A h \in Spawned :
                    (KindOf(h) = kind /\ RunOf(h) < runIndex) => ~children[h].alive]_vars

C37_ExitZeroOnlyIfClientExitedZero ==
    (exitCode = Running /\ pc \in {"cooldown", "finish"}) =>
        /\ benchResult.exitCode = 0 => benchExit = "exit0"
        /\ ~benchInvoked => benchResult.exitCode = 1

\* C38: after stop() no collection starts, and a collection that ends after
\* stop() leaves the summary stop() returned as it is
C38_StopFreezesSummary ==
    [][sampler.stopped =>
          /\ sampler'.queries <= sampler.queries
          /\ sampler'.ticks = sampler.ticks
          /\ sampler'.result = sampler.result
          /\ sampler'.stopped]_vars

\* stop() was called with a collection in flight, and that collection has
\* pushed its sample since
C38_Witness ==
    /\ sampler.stopped
    /\ sampler.queries = 0
    /\ Len(sampler.samples) > sampler.collected
    /\ sampler.result = stop(SubSeq(sampler.samples, 1, sampler.collected))

=============================================================================
